---------------------------- MODULE Spec2Model ----------------------------
(***************************************************************************)
(* The authoritative game server of FrogGame (server/index.js, the         *)
(* WebSocket version): the in-memory player store, the round-robin colour  *)
(* counter, the message handlers of one connection, the close handler,     *)
(* the broadcast router and the optional MySQL ranking gateway.            *)
(*                                                                         *)
(* Node runs every handler to completion on one thread, so each handler is *)
(* one atomic action.  The only asynchronous parts are the two queries of  *)
(* the ranking gateway (the INSERT of recordHighScore and the SELECT of    *)
(* getOverallRank); they complete in later turns of the event loop and are *)
(* separate actions.                                                       *)
(***************************************************************************)
EXTENDS Integers, Sequences, FiniteSets, TLC

(***************************************************************************)
(* Bounds of the model.                                                    *)
(***************************************************************************)
\* Colour draws (joins, and respawns that create a player) that are followed.
MaxJoins == 2
\* Scores are followed up to FoodReward * MaxScoreSteps.
MaxScoreSteps == 6
\* The same bounds for SpecCoords, which follows the coordinates instead.
MaxJoinsCoords == 2
MaxScoreStepsCoords == 1
\* The same bounds for SpecRank, which follows three players.
MaxJoinsRank == 3
MaxScoreStepsRank == 2
\* SpecDb: the deaths whose queries (one INSERT, one SELECT each) may be in
\* flight at once.
MaxPending == 1

(***************************************************************************)
(* Program constants.                                                      *)
(***************************************************************************)
MAX_HEALTH == 5
FoodReward == 10
KillReward == 50
FrogThreshold == 50
DefaultX == 240
DefaultY == 320
SpawnWidth == 480
SpawnHeight == 320
SpawnMargin == 80

\* The colour palette, in the order of the source (hexadecimal there).
palette ==
  << 16738155, 5099972, 16770669, 6139362, 10840509, 16103345, 4770224, 16303217 >>

(***************************************************************************)
(* Connections.  Every connection gets a fresh randomUUID, so an id is     *)
(* used by one connection only: "new" (not yet connected), "open",         *)
(* "closing" (readyState is no longer OPEN, the close handler has not run  *)
(* yet, the socket is still in wss.clients) and "closed".                  *)
(***************************************************************************)
Conns == {"c1", "c2", "c3"}

(***************************************************************************)
(* JavaScript values of the payload fields x and y.                        *)
(*   number    a finite number v                                           *)
(*   inf       Infinity (JSON.parse of 1e999); typeof is "number"          *)
(*   nan       NaN; typeof is "number"                                     *)
(*   string    the decimal text of v when v >= 0, other text when v = -1   *)
(*   undefined the field is missing                                        *)
(*   null      JSON null                                                   *)
(***************************************************************************)
Num(n) == [t |-> "number", v |-> n]
NaN == [t |-> "nan", v |-> 0]
Infinity == [t |-> "inf", v |-> 0]
Str(n) == [t |-> "string", v |-> n]
Undefined == [t |-> "undefined", v |-> 0]
Null == [t |-> "null", v |-> 0]

\* typeof v === "number"
IsTypeofNumber(v) == v.t \in {"number", "inf", "nan"}

\* Number.isFinite(v)
IsFinite(v) == v.t = "number"

\* Number(v ?? d)
NumberOr(v, d) ==
  IF v.t \in {"undefined", "null"} THEN Num(d)
  ELSE IF v.t = "string" THEN (IF v.v >= 0 THEN Num(v.v) ELSE NaN)
  ELSE v

VARIABLES
  conn,        \* connection id -> "new" | "open" | "closing" | "closed"
  players,     \* the Map players: a function from the ids in it to their state
  colorIndex,  \* the shared colour counter
  pool,        \* TRUE when the MySQL pool exists (dbConfig given)
  scores,      \* the table scores: nickname -> best_score, for the nicknames in it
  writes,      \* INSERTs of recordHighScore sent to the pool and not yet executed
  lookups,     \* getOverallRank promises not yet settled
  emitted,     \* the frames the last step sent, in order
  called       \* the calls the last step made to the ranking gateway, in order

vars == << conn, players, colorIndex, pool, scores, writes, lookups, emitted, called >>

Has(id) == id \in DOMAIN players

\* players.set(id, state)
MapSet(m, id, state) ==
  [k \in (DOMAIN m) \cup {id} |-> IF k = id THEN state ELSE m[k]]

\* mutant: the entry stays
MapDelete_Keep(m, id) == m

\* players.delete(id)
MapDelete(m, id) == [k \in (DOMAIN m) \ {id} |-> m[k]]

\* clients of wss.clients whose readyState is OPEN
OpenClients == {k \in Conns : conn[k] = "open"}

NoExclude == ""

\* mutant: a client that is closing is sent the frame too
broadcast_Closing(type, payload, excludeId) ==
  [type |-> type,
   to |-> {k \in Conns : conn[k] \in {"open", "closing"}
                         /\ (excludeId = NoExclude \/ k # excludeId)},
   payload |-> payload]

\* mutant: the excluded client is sent the frame too
broadcast_All(type, payload, excludeId) ==
  [type |-> type, to |-> OpenClients, payload |-> payload]

\* broadcast(message, excludeId): one frame with the set of clients it is sent to
broadcast(type, payload, excludeId) ==
  [type |-> type, to |-> {k \in OpenClients : excludeId = NoExclude \/ k # excludeId},
   payload |-> payload]

\* socket.send / victimSocket.send: a frame for one client
send(type, payload, id) == [type |-> type, to |-> {id}, payload |-> payload]

\* JSON.stringify of a number: NaN and Infinity are written as null
JsonNumber(v) == IF IsFinite(v) THEN v ELSE Null

\* the payload of player:updated, as JSON.stringify writes it
UpdatedPayload(id, s) ==
  [id |-> id, x |-> JsonNumber(s.x), y |-> JsonNumber(s.y), stage |-> s.stage, hp |-> s.hp,
   score |-> s.score, color |-> s.color]

\* palette[colorIndex % palette.length]
NextColor == palette[(colorIndex % Len(palette)) + 1]


\* the payload of player:joined: { id, ...state }
JoinedPayload(id, s) ==
  [id |-> id, x |-> JsonNumber(s.x), y |-> JsonNumber(s.y), stage |-> s.stage, color |-> s.color,
   hp |-> s.hp, score |-> s.score, nickname |-> s.nickname]

\* String(v || "Player"): the empty string stands for every falsy value
NicknameOf(v) == IF v = "" THEN "Player" ELSE v

\* mutant: every join starts as a tadpole
JoinStage_Tadpole(v) == "tadpole"

\* payload.stage === "frog" ? "frog" : "tadpole"
JoinStage(v) == IF v = "frog" THEN "frog" ELSE "tadpole"

(***************************************************************************)
(* Ranks.  getOverallRank yields a number or null.                         *)
(***************************************************************************)
Rank(n) == [isNull |-> FALSE, n |-> n]
\* mutant: a missing rank is reported as the first place
NullRank_First == [isNull |-> FALSE, n |-> 1]
NullRank == [isNull |-> TRUE, n |-> 0]
Unsettled == [isNull |-> TRUE, n |-> -1]

(***************************************************************************)
(* Initial state: the module has just been loaded, nobody is connected.    *)
(* pool is created at start-up exactly when the DB_* variables are set:    *)
(* Init is the server without a database, InitDb the server with one.      *)
(***************************************************************************)
Start(withPool) ==
  /\ conn = [c \in Conns |-> "new"]
  /\ players = << >>
  /\ colorIndex = 0
  /\ pool = withPool
  /\ scores = << >>
  /\ writes = << >>
  /\ lookups = << >>
  /\ emitted = << >>
  /\ called = << >>

Init == Start(FALSE)

InitDb == Start(TRUE)

\* mutant: the snapshot is empty
toSnapshot_Empty == [k \in {} |-> k]

\* toSnapshot(), as JSON.stringify writes it
toSnapshot ==
  [k \in DOMAIN players |->
     [players[k] EXCEPT !.x = JsonNumber(players[k].x), !.y = JsonNumber(players[k].y)]]

\* wss.on("connection"): the id is assigned and players:sync is sent
Connect(c) ==
  /\ called' = << >>
  /\ conn[c] = "new"
  /\ conn' = [conn EXCEPT ![c] = "open"]
  /\ emitted' = << send("players:sync", [selfId |-> c, players |-> toSnapshot], c) >>
  /\ UNCHANGED << players, colorIndex, pool, scores, writes, lookups >>

\* case "player:join"
Join(c, px, py, pstage, pnick) ==
  /\ called' = << >>
  /\ conn[c] = "open"
  /\ LET state == [x |-> NumberOr(px, DefaultX), y |-> NumberOr(py, DefaultY),
                   stage |-> JoinStage(pstage), color |-> NextColor,
                   hp |-> MAX_HEALTH, score |-> 0, nickname |-> NicknameOf(pnick)]
     IN /\ players' = MapSet(players, c, state)
        /\ emitted' = << send("player:updated", UpdatedPayload(c, state), c),
                         broadcast("player:joined", JoinedPayload(c, state), c) >>
  /\ colorIndex' = colorIndex + 1
  /\ UNCHANGED << conn, pool, scores, writes, lookups >>

\* mutant: every meal promotes
EatStage_Always(nextScore, stage) == "frog"

\* mutant: promotion only above the threshold
EatStage_Above(nextScore, stage) == IF nextScore > FrogThreshold THEN "frog" ELSE stage

\* nextScore >= 50 ? "frog" : player.stage
EatStage(nextScore, stage) == IF nextScore >= FrogThreshold THEN "frog" ELSE stage

\* case "food:eat"
Eat(c) ==
  /\ called' = << >>
  /\ conn[c] = "open"
  /\ IF ~Has(c)
       THEN /\ emitted' = << >>
            /\ UNCHANGED players
       ELSE LET player == players[c]
                nextScore == player.score + FoodReward
                updated == [player EXCEPT !.score = nextScore,
                                          !.stage = EatStage(nextScore, player.stage)]
            IN /\ players' = MapSet(players, c, updated)
               /\ emitted' = << broadcast("player:updated", UpdatedPayload(c, updated), NoExclude) >>
  /\ UNCHANGED << conn, colorIndex, pool, scores, writes, lookups >>

\* mutant: the coordinate is converted as player:join converts it
UpdateCoord_Number(v, prev) == IF v.t \in {"undefined", "null"} THEN prev ELSE NumberOr(v, 0)

\* typeof payload.x === "number" ? payload.x : prev.x
UpdateCoord(v, prev) == IF IsTypeofNumber(v) THEN v ELSE prev

\* payload.stage === "frog" ? "frog" : payload.stage === "tadpole" ? "tadpole" : prev.stage
UpdateStage(v, prev) == IF v = "frog" THEN "frog" ELSE IF v = "tadpole" THEN "tadpole" ELSE prev

\* case "player:update"
Update(c, px, py, pstage) ==
  /\ called' = << >>
  /\ conn[c] = "open"
  /\ IF ~Has(c)
       THEN /\ emitted' = << >>
            /\ UNCHANGED players
       ELSE LET prev == players[c]
                next == [prev EXCEPT !.x = UpdateCoord(px, prev.x),
                                     !.y = UpdateCoord(py, prev.y),
                                     !.stage = UpdateStage(pstage, prev.stage)]
            IN /\ players' = MapSet(players, c, next)
               /\ emitted' = << broadcast("player:updated", UpdatedPayload(c, next), c) >>
  /\ UNCHANGED << conn, colorIndex, pool, scores, writes, lookups >>

\* mutant: the attack is echoed to the sender
Attack_Echo(c, heading) ==
  /\ called' = << >>
  /\ conn[c] = "open"
  /\ emitted' = << broadcast("player:attack", [id |-> c, heading |-> heading], NoExclude) >>
  /\ UNCHANGED << conn, players, colorIndex, pool, scores, writes, lookups >>

\* case "player:attack": a relay, whether or not the sender has joined
Attack(c, heading) ==
  /\ called' = << >>
  /\ conn[c] = "open"
  /\ emitted' = << broadcast("player:attack", [id |-> c, heading |-> heading], c) >>
  /\ UNCHANGED << conn, players, colorIndex, pool, scores, writes, lookups >>

\* randomSpawn().x for Math.random() = r / 1000
randomSpawnX(r) == (r * SpawnWidth) \div 1000 + SpawnMargin

\* randomSpawn().y for Math.random() = r / 1000
randomSpawnY(r) == (r * SpawnHeight) \div 1000 + SpawnMargin

\* mutant: the supplied value is taken when its type is number
SpawnCoord_Typeof(v, random) == IF IsTypeofNumber(v) THEN v ELSE Num(random)

\* typeof v === "number" && Number.isFinite(v) ? v : <random>
SpawnCoord(v, random) == IF IsTypeofNumber(v) /\ IsFinite(v) THEN v ELSE Num(random)

\* case "player:respawn"; rx and ry are the two draws of Math.random()
Respawn(c, px, py, rx, ry) ==
  /\ called' = << >>
  /\ conn[c] = "open"
  /\ LET next == [x |-> SpawnCoord(px, randomSpawnX(rx)),
                  y |-> SpawnCoord(py, randomSpawnY(ry)),
                  hp |-> MAX_HEALTH, stage |-> "tadpole", score |-> 0,
                  color |-> IF Has(c) THEN players[c].color ELSE NextColor,
                  nickname |-> IF Has(c) THEN players[c].nickname ELSE "Player"]
     IN /\ players' = MapSet(players, c, next)
        /\ emitted' = << broadcast("player:updated", UpdatedPayload(c, next), NoExclude) >>
  /\ colorIndex' = IF Has(c) THEN colorIndex ELSE colorIndex + 1
  /\ UNCHANGED << conn, pool, scores, writes, lookups >>

\* mutant: the frame that cannot be handled ends the connection
BadFrame_Close(c) ==
  /\ called' = << >>
  /\ conn[c] = "open"
  /\ conn' = [conn EXCEPT ![c] = "closing"]
  /\ emitted' = << >>
  /\ UNCHANGED << players, colorIndex, pool, scores, writes, lookups >>

\* a frame that is not JSON, or whose type no case matches
BadFrame(c) ==
  /\ called' = << >>
  /\ conn[c] = "open"
  /\ emitted' = << >>
  /\ UNCHANGED << conn, players, colorIndex, pool, scores, writes, lookups >>

\* the socket leaves readyState OPEN; its close event is still to come
BeginClose(c) ==
  /\ called' = << >>
  /\ conn[c] = "open"
  /\ conn' = [conn EXCEPT ![c] = "closing"]
  /\ emitted' = << >>
  /\ UNCHANGED << players, colorIndex, pool, scores, writes, lookups >>

\* socket.on("close"); the socket has left wss.clients
Close(c) ==
  /\ called' = << >>
  /\ conn[c] \in {"open", "closing"}
  /\ conn' = [conn EXCEPT ![c] = "closed"]
  /\ IF Has(c)
       THEN /\ players' = MapDelete(players, c)
            /\ emitted' = << [type |-> "player:left",
                              to |-> {k \in Conns : conn'[k] = "open" /\ k # c},
                              payload |-> [id |-> c]] >>
       ELSE /\ emitted' = << >>
            /\ UNCHANGED players
  /\ UNCHANGED << colorIndex, pool, scores, writes, lookups >>


(***************************************************************************)
(* player:hit.                                                             *)
(***************************************************************************)
\* the payload field targetId: a string s, or something that is not a string
TargetStr(id) == [t |-> "string", s |-> id]
TargetMissing == [t |-> "undefined", s |-> ""]

\* mutant: every targetId is refused
BadTargetId_Always(v) == TRUE

\* !targetId || typeof targetId !== "string"
BadTargetId(v) == v.t # "string" \/ v.s = ""

\* mutant: a hit on a dead target brings it back
NextHp_Revive(prevHp) == IF prevHp = 0 THEN 1 ELSE prevHp - 1

\* mutant: the decrement without its floor
NextHp_NoFloor(prevHp) == prevHp - 1

\* mutant: the hit takes two points of health
NextHp_Two(prevHp) == IF prevHp - 2 > 0 THEN prevHp - 2 ELSE 0

\* Math.max(0, prevHp - 1)
NextHp(prevHp) == IF prevHp - 1 > 0 THEN prevHp - 1 ELSE 0

\* mutant: death is detected by level, not by edge
HitDied_Level(prevHp, nextHp) == nextHp = 0

\* nextHp === 0 && prevHp > 0
HitDied(prevHp, nextHp) == nextHp = 0 /\ prevHp > 0

RECURSIVE SeqOfSet(_)
\* Array.from of a set of ids, in some order
SeqOfSet(S) ==
  IF S = {} THEN << >>
  ELSE LET e == CHOOSE e \in S : TRUE IN << e >> \o SeqOfSet(S \ {e})

\* Array.from(players.entries()).map(([id, s]) => id === targetId ? deathScore : s.score)
currentScores(targetId, deathScore) ==
  LET ids == SeqOfSet(DOMAIN players)
  IN [i \in 1..Len(ids) |-> IF ids[i] = targetId THEN deathScore ELSE players[ids[i]].score]

RECURSIVE InsertDesc(_, _)
\* v put into the descending sequence s
InsertDesc(s, v) ==
  IF s = << >> THEN << v >>
  ELSE IF v >= Head(s) THEN << v >> \o s
  ELSE << Head(s) >> \o InsertDesc(Tail(s), v)

RECURSIVE SortDesc(_)
\* slice().sort((a, b) => b - a)
SortDesc(s) == IF s = << >> THEN << >> ELSE InsertDesc(SortDesc(Tail(s)), Head(s))

\* mutant: the comparison is strict
RankPredicate_Strict(value, deathScore) == value < deathScore

\* the comparison inside findIndex: value <= deathScore
RankPredicate(value, deathScore) == value <= deathScore

\* sortedScores.findIndex((value) => value <= deathScore), 0-based, -1 when none
FindIndex(sorted, deathScore) ==
  LET hits == {i \in 1..Len(sorted) : RankPredicate(sorted[i], deathScore)}
  IN IF hits = {} THEN -1 ELSE (CHOOSE i \in hits : \A j \in hits : i <= j) - 1

\* findIndex(...) + 1 || 1
MapRankOf(scoreList, deathScore) ==
  LET r == FindIndex(SortDesc(scoreList), deathScore) + 1
  IN IF r = 0 THEN 1 ELSE r

\* mutant: the death keeps the score
HitTarget_KeepScore(target) ==
  LET nextHp == NextHp(target.hp)
      died == HitDied(target.hp, nextHp)
  IN [target EXCEPT !.hp = IF died THEN 0 ELSE nextHp,
                    !.stage = IF died THEN "tadpole" ELSE target.stage]

\* mutant: the death also takes the nickname
HitTarget_Anonymous(target) ==
  LET nextHp == NextHp(target.hp)
      died == HitDied(target.hp, nextHp)
  IN [target EXCEPT !.hp = IF died THEN 0 ELSE nextHp,
                    !.stage = IF died THEN "tadpole" ELSE target.stage,
                    !.score = IF died THEN 0 ELSE target.score,
                    !.nickname = IF died THEN "Player" ELSE target.nickname]

\* the target after the hit
HitTarget(target) ==
  LET nextHp == NextHp(target.hp)
      died == HitDied(target.hp, nextHp)
  IN [target EXCEPT !.hp = IF died THEN 0 ELSE nextHp,
                    !.stage = IF died THEN "tadpole" ELSE target.stage,
                    !.score = IF died THEN 0 ELSE target.score]

\* mutant: the kill is rewarded like a meal
RewardAttacker_Food(attacker) == [attacker EXCEPT !.score = attacker.score + FoodReward]

\* the attacker after a kill: { ...attacker, score: attacker.score + 50 }
RewardAttacker(attacker) == [attacker EXCEPT !.score = attacker.score + KillReward]

\* the payload of player:died
DiedPayload(deathScore, mapRank, overallRank) ==
  [score |-> deathScore, mapRank |-> mapRank, overallRank |-> overallRank]

\* mutant: the death summary is never sent
DeathSummary_Silent(targetId, deathScore, mapRank, overallRank) == << >>

\* mutant: the death summary is broadcast
DeathSummary_Broadcast(targetId, deathScore, mapRank, overallRank) ==
  << broadcast("player:died", DiedPayload(deathScore, mapRank, overallRank), NoExclude) >>

\* the victim's frame, when a client with its id is OPEN
DeathSummary(targetId, deathScore, mapRank, overallRank) ==
  IF conn[targetId] = "open"
    THEN << send("player:died", DiedPayload(deathScore, mapRank, overallRank), targetId) >>
    ELSE << >>

\* String(nickname || "Player").slice(0, 64); the model's nicknames are shorter
safeNickname(nickname) == NicknameOf(nickname)

\* case "player:hit"
Hit(c, ptarget) ==
  /\ conn[c] = "open"
  /\ IF BadTargetId(ptarget) \/ ~Has(ptarget.s)
       THEN /\ emitted' = << >>
            /\ called' = << >>
            /\ UNCHANGED << players, writes, lookups >>
       ELSE LET targetId == ptarget.s
                target == players[targetId]
                died == HitDied(target.hp, NextHp(target.hp))
                deathScore == target.score
                updated == HitTarget(target)
                hit == MapSet(players, targetId, updated)
                mapRank == MapRankOf(currentScores(targetId, deathScore), deathScore)
                rewarded == died /\ c \in DOMAIN hit
                toTarget == << broadcast("player:updated", UpdatedPayload(targetId, updated), NoExclude) >>
            IN /\ players' = IF rewarded THEN MapSet(hit, c, RewardAttacker(hit[c])) ELSE hit
               /\ called' = IF died
                              THEN << [fn |-> "recordHighScore", nickname |-> target.nickname,
                                       score |-> deathScore],
                                      [fn |-> "getOverallRank", nickname |-> "",
                                       score |-> deathScore] >>
                              ELSE << >>
               /\ writes' = IF died /\ pool
                              THEN Append(writes, [nickname |-> safeNickname(target.nickname),
                                                   score |-> deathScore])
                              ELSE writes
               /\ lookups' = IF died /\ pool
                               THEN Append(lookups, [target |-> targetId, score |-> deathScore,
                                                     mapRank |-> mapRank, overallRank |-> Unsettled])
                               ELSE lookups
               /\ emitted' =
                    toTarget
                    \o (IF rewarded
                          THEN << broadcast("player:updated",
                                            UpdatedPayload(c, RewardAttacker(hit[c])), NoExclude) >>
                          ELSE << >>)
                    \o (IF died /\ ~pool
                          THEN DeathSummary(targetId, deathScore, mapRank, NullRank)
                          ELSE << >>)
  /\ UNCHANGED << conn, colorIndex, pool, scores >>

(***************************************************************************)
(* The ranking gateway's queries, executed by MySQL in later turns.        *)
(***************************************************************************)
Remove(s, i) == SubSeq(s, 1, i - 1) \o SubSeq(s, i + 1, Len(s))

\* mutant: the scores of a nickname add up
Greatest_Sum(a, b) == a + b

\* mutant: the new score overwrites the record
Greatest_Last(a, b) == b

\* GREATEST(best_score, VALUES(best_score))
Greatest(a, b) == IF a >= b THEN a ELSE b

\* INSERT ... ON DUPLICATE KEY UPDATE best_score = GREATEST(...)
Upsert(table, nickname, score) ==
  MapSet(table, nickname,
         IF nickname \in DOMAIN table THEN Greatest(table[nickname], score) ELSE score)

\* mutant: records with an equal best score are counted too
CountHigher_OrEqual(table, score) == Cardinality({n \in DOMAIN table : table[n] >= score})

\* SELECT COUNT(*) AS higher FROM scores WHERE best_score > ?
CountHigher(table, score) == Cardinality({n \in DOMAIN table : table[n] > score})

\* GET /api/highscores: the limit when the request gives none that counts
DefaultLimit == 10

\* GET /api/highscores: the largest limit
MaxLimit == 50

\* req.query.limit as the decimal text of n / 10
Decimal(n) == [t |-> "decimal", v |-> n]

\* req.query.limit as the text Infinity
InfinityText == [t |-> "infinity", v |-> 0]

\* req.query.limit as text that is no number
OtherText == [t |-> "text", v |-> 0]

\* Number(req.query.limit); a finite number is held in tenths
rawLimit(q) ==
  IF q.t = "decimal" THEN Num(q.v)
  ELSE IF q.t = "infinity" THEN Infinity
  ELSE NaN

\* Math.floor of a positive number held in tenths
Floor(tenths) == tenths \div 10

\* Number.isFinite(rawLimit) && rawLimit > 0 ? Math.min(50, Math.floor(rawLimit)) : 10
HighscoreLimit(q) ==
  LET raw == rawLimit(q)
  IN IF IsFinite(raw) /\ raw.v > 0
       THEN (IF Floor(raw.v) < MaxLimit THEN Floor(raw.v) ELSE MaxLimit)
       ELSE DefaultLimit

\* ORDER BY best_score DESC LIMIT limit: the nicknames MySQL may return, in
\* order; records with equal scores come in any order
TopRows(table, limit) ==
  LET size == Cardinality(DOMAIN table)
      n == IF limit < size THEN limit ELSE size
  IN {r \in [1..n -> DOMAIN table] :
        /\ \A i, j \in 1..n : i < j => (r[i] # r[j] /\ table[r[i]] >= table[r[j]])
        /\ \A m \in DOMAIN table \ {r[i] : i \in 1..n} :
             \A i \in 1..n : table[m] <= table[r[i]]}

\* SELECT nickname, best_score AS score
Rows(table, r) == [i \in DOMAIN r |-> [nickname |-> r[i], score |-> table[r[i]]]]

\* res.json / res.status(500).json: the response of the HTTP request
Response(status, body) == [type |-> "http", to |-> {}, payload |-> [status |-> status, body |-> body]]

\* the pool.query of the handler, with the limit written into the statement
HighscoreQuery(limit) == [fn |-> "pool.query", limit |-> limit]

\* app.get("/api/highscores"): the request and its response
GetHighscores(q) ==
  /\ IF ~pool
       THEN /\ emitted' = << Response(200, << >>) >>
            /\ called' = << >>
       ELSE /\ called' = << HighscoreQuery(HighscoreLimit(q)) >>
            /\ \E r \in TopRows(scores, HighscoreLimit(q)) :
                  emitted' = << Response(200, Rows(scores, r)) >>
  /\ UNCHANGED << conn, players, colorIndex, pool, scores, writes, lookups >>

\* app.get("/api/highscores"): the query fails
GetHighscoresFail(q) ==
  /\ pool
  /\ called' = << HighscoreQuery(HighscoreLimit(q)) >>
  /\ emitted' = << Response(500, [error |-> "failed to fetch highscores"]) >>
  /\ UNCHANGED << conn, players, colorIndex, pool, scores, writes, lookups >>

\* the INSERT of recordHighScore is executed
DbWrite(i) ==
  /\ called' = << >>
  /\ i \in 1..Len(writes)
  /\ scores' = Upsert(scores, writes[i].nickname, writes[i].score)
  /\ writes' = Remove(writes, i)
  /\ emitted' = << >>
  /\ UNCHANGED << conn, players, colorIndex, pool, lookups >>

\* the INSERT fails: recordHighScore logs a warning
DbWriteFail(i) ==
  /\ called' = << >>
  /\ i \in 1..Len(writes)
  /\ writes' = Remove(writes, i)
  /\ emitted' = << >>
  /\ UNCHANGED << conn, players, colorIndex, pool, scores, lookups >>

\* the SELECT of getOverallRank is executed: higher + 1
DbCount(i) ==
  /\ called' = << >>
  /\ i \in 1..Len(lookups)
  /\ lookups[i].overallRank = Unsettled
  /\ lookups' = [lookups EXCEPT ![i].overallRank = Rank(CountHigher(scores, lookups[i].score) + 1)]
  /\ emitted' = << >>
  /\ UNCHANGED << conn, players, colorIndex, pool, scores, writes >>

\* the SELECT fails: getOverallRank returns null
DbCountFail(i) ==
  /\ called' = << >>
  /\ i \in 1..Len(lookups)
  /\ lookups[i].overallRank = Unsettled
  /\ lookups' = [lookups EXCEPT ![i].overallRank = NullRank]
  /\ emitted' = << >>
  /\ UNCHANGED << conn, players, colorIndex, pool, scores, writes >>

\* mutant: the victim is reset when the rank lookup settles
Settle_Reset(i) ==
  /\ called' = << >>
  /\ i \in 1..Len(lookups)
  /\ lookups[i].overallRank # Unsettled
  /\ emitted' = DeathSummary(lookups[i].target, lookups[i].score, lookups[i].mapRank,
                             lookups[i].overallRank)
  /\ lookups' = Remove(lookups, i)
  /\ players' = IF Has(lookups[i].target)
                  THEN [players EXCEPT ![lookups[i].target].hp = 0]
                  ELSE players
  /\ UNCHANGED << conn, colorIndex, pool, scores, writes >>

\* getOverallRank(deathScore).then(...): the death summary is sent
Settle(i) ==
  /\ called' = << >>
  /\ i \in 1..Len(lookups)
  /\ lookups[i].overallRank # Unsettled
  /\ emitted' = DeathSummary(lookups[i].target, lookups[i].score, lookups[i].mapRank,
                             lookups[i].overallRank)
  /\ lookups' = Remove(lookups, i)
  /\ UNCHANGED << conn, players, colorIndex, pool, scores, writes >>

(***************************************************************************)
(* What keeps a step inside the bounds: the colour draws and the scores    *)
(* that the model follows.                                                 *)
(***************************************************************************)
\* a join, or a respawn of c that draws a colour
DrawWithin(c, maxJoins) == colorIndex < maxJoins

\* c's score stays within cap after a food:eat
EatWithin(c, cap) == Has(c) => players[c].score + FoodReward <= cap

\* ptarget names a player that the hit kills
Lethal(ptarget) ==
  /\ ~BadTargetId(ptarget)
  /\ Has(ptarget.s)
  /\ HitDied(players[ptarget.s].hp, NextHp(players[ptarget.s].hp))

\* a lethal hit on a server with a pool finds room among the queries in flight
QueriesWithin(ptarget, maxPending) ==
  (Lethal(ptarget) /\ pool) => (Len(writes) < maxPending /\ Len(lookups) < maxPending)

\* the rewarded attacker's score stays within cap
HitWithin(c, ptarget, cap) ==
  (Lethal(ptarget) /\ Has(c)) =>
     (IF c = ptarget.s THEN 0 ELSE players[c].score) + KillReward <= cap

(***************************************************************************)
(* Spec: two clients of a server without a database.  They send every      *)
(* intent, in every order.  The handlers never look at which id they serve *)
(* (ids are interchangeable UUIDs), so the hits are aimed at one of the    *)
(* two, "c1", by either of them; coordinates are always supplied.          *)
(***************************************************************************)
ScoreCap == FoodReward * MaxScoreSteps
Clients == {"c1", "c2"}
StageInputs == {"frog", "tadpole", ""}
TargetInputs == {TargetStr("c1"), TargetStr("ghost"), TargetMissing}

Next ==
  \/ \E c \in Clients : Connect(c)
  \/ \E c \in Clients, pstage \in StageInputs :
        DrawWithin(c, MaxJoins) /\ Join(c, Num(100), Num(100), pstage, "ann")
  \/ \E c \in Clients : EatWithin(c, ScoreCap) /\ Eat(c)
  \/ \E c \in Clients, pstage \in StageInputs : Update(c, Num(100), Num(100), pstage)
  \/ \E c \in Clients, ptarget \in TargetInputs :
        HitWithin(c, ptarget, ScoreCap) /\ Hit(c, ptarget)
  \/ \E c \in Clients : Attack(c, "east")
  \/ \E c \in Clients :
        (Has(c) \/ DrawWithin(c, MaxJoins)) /\ Respawn(c, Num(100), Num(100), 0, 0)
  \/ \E c \in Clients : BadFrame(c)
  \/ \E c \in Clients : BeginClose(c)
  \/ \E c \in Clients : Close(c)

Spec == Init /\ [][Next]_vars


(***************************************************************************)
(* SpecCoords: what the handlers do with the payload.  "c1" joins, moves,  *)
(* eats, is hit and respawns with every kind of x and y; "c2" watches and  *)
(* hits.  Math.random() is drawn from both ends of [0, 1).                 *)
(***************************************************************************)
CoordPayloads ==
  { [x |-> Undefined, y |-> Undefined], [x |-> Num(100), y |-> Num(200)],
    [x |-> Str(-1), y |-> Infinity], [x |-> Infinity, y |-> Str(7)],
    [x |-> Null, y |-> Num(200)], [x |-> Num(100), y |-> Null] }
MovePayloads ==
  { [x |-> Str(7), y |-> Infinity], [x |-> Num(300), y |-> Undefined],
    [x |-> Null, y |-> Num(200)] }
MoveStages == {"", "tadpole"}
\* the two draws of Math.random() of one respawn, in thousandths
RandomInputs == { [x |-> 0, y |-> 999], [x |-> 999, y |-> 0] }
NicknameInputs == {"", "ann"}
JoinStages == {"frog", ""}
CoordScoreCap == FoodReward * MaxScoreStepsCoords

NextCoords ==
  \/ \E c \in Clients : Connect(c)
  \/ \E p \in CoordPayloads, pstage \in JoinStages, pnick \in NicknameInputs :
        DrawWithin("c1", MaxJoinsCoords) /\ Join("c1", p.x, p.y, pstage, pnick)
  \/ EatWithin("c1", CoordScoreCap) /\ Eat("c1")
  \/ \E p \in MovePayloads, pstage \in MoveStages : Update("c1", p.x, p.y, pstage)
  \/ \E c \in Clients :
        HitWithin(c, TargetStr("c1"), KillReward + CoordScoreCap) /\ Hit(c, TargetStr("c1"))
  \/ \E p \in CoordPayloads, r \in RandomInputs :
        (Has("c1") \/ DrawWithin("c1", MaxJoinsCoords)) /\ Respawn("c1", p.x, p.y, r.x, r.y)
  \/ BeginClose("c2")
  \/ \E c \in Clients : Close(c)

SpecCoords == Init /\ [][NextCoords]_vars

(***************************************************************************)
(* SpecScenario: the scenario of two players.  Both connect and join, with *)
(* any payload; "c1" eats until its score is 50; then "c2" hits "c1" until *)
(* it dies.  The server runs with or without a database.                   *)
(***************************************************************************)
InitAny == Start(TRUE) \/ Start(FALSE)

BothJoined == Has("c1") /\ Has("c2")

NextScenario ==
  \/ \E c \in Clients : Connect(c)
  \/ \E c \in Clients, p \in CoordPayloads, pstage \in {"frog", ""}, pnick \in NicknameInputs :
        ~Has(c) /\ Join(c, p.x, p.y, pstage, pnick)
  \/ BothJoined /\ players["c1"].hp = MAX_HEALTH /\ players["c1"].score < FrogThreshold
        /\ Eat("c1")
  \/ BothJoined /\ players["c1"].score = FrogThreshold /\ Hit("c2", TargetStr("c1"))
  \/ DbWrite(1)
  \/ DbWriteFail(1)
  \/ DbCount(1)
  \/ DbCountFail(1)
  \/ Settle(1)

SpecScenario == InitAny /\ [][NextScenario]_vars

(***************************************************************************)
(* SpecRank: three players on a server without a database.  They connect   *)
(* and join in the order of their names, eat, respawn and hit "c1".        *)
(***************************************************************************)
RankScoreCap == FoodReward * MaxScoreStepsRank

\* the clients named before c have joined
EarlierJoined(c) == \A k \in Conns : (<< k, c >> \in {<< "c1", "c2" >>, << "c1", "c3" >>, << "c2", "c3" >>}) => Has(k)

NextRank ==
  \/ \E c \in Conns : EarlierJoined(c) /\ Connect(c)
  \/ \E c \in Conns : DrawWithin(c, MaxJoinsRank) /\ Join(c, Num(100), Num(100), "", "ann")
  \/ \E c \in Conns : EatWithin(c, RankScoreCap) /\ Eat(c)
  \/ \E c \in Conns :
        HitWithin(c, TargetStr("c1"), KillReward + RankScoreCap) /\ Hit(c, TargetStr("c1"))
  \/ \E c \in Conns : Has(c) /\ Respawn(c, Num(100), Num(100), 0, 0)
  \/ \E c \in Conns : Close(c)

SpecRank == Init /\ [][NextRank]_vars

(***************************************************************************)
(* SpecDb: the ranking store.  The server runs with or without a database. *)
(* "c1" plays as "ann" or "bob"; "c2" comes as "ann" once "c1" has gone;    *)
(* each joins once and eats at most once.  "c3" never joins and sends the  *)
(* hits, so no kill reward is paid.  The queries of the pool complete, or  *)
(* fail, in any order.                                                     *)
(***************************************************************************)
DbScoreCap == FoodReward
Players == {"c1", "c2"}
DbNicknames(c) == IF c = "c1" THEN {"ann", "bob"} ELSE {"ann"}

\* the connections arrive in turn: "c3", then "c1", then "c2" when "c1" has gone
DbTurn(c) ==
  /\ c = "c1" => conn["c3"] = "open"
  /\ c = "c2" => conn["c1"] = "closed"

NextDb ==
  \/ \E c \in Conns : DbTurn(c) /\ Connect(c)
  \/ \E c \in Players : \E pnick \in DbNicknames(c) :
        ~Has(c) /\ Join(c, Num(100), Num(100), "", pnick)
  \/ \E c \in Players : EatWithin(c, DbScoreCap) /\ Eat(c)
  \/ \E c \in Players :
        QueriesWithin(TargetStr(c), MaxPending) /\ Hit("c3", TargetStr(c))
  \/ \E c \in Players : Has(c) /\ Respawn(c, Num(100), Num(100), 0, 0)
  \/ BeginClose("c1")
  \/ \E c \in Players : Close(c)
  \/ \E i \in 1..MaxPending : DbWrite(i)
  \/ \E i \in 1..MaxPending : DbWriteFail(i)
  \/ \E i \in 1..MaxPending : DbCount(i)
  \/ \E i \in 1..MaxPending : DbCountFail(i)
  \/ \E i \in 1..MaxPending : Settle(i)

SpecDb == InitAny /\ [][NextDb]_vars

(***************************************************************************)
(* SpecScores: the list of best scores.  The server runs with or without a *)
(* database.  "c1" plays as "ann" and "c2" as "bob"; each joins once and   *)
(* eats at most once; "c3" never joins and sends the hits.  The list is    *)
(* asked for at any moment, with every kind of limit.                      *)
(***************************************************************************)
ScoreNickname(c) == IF c = "c1" THEN "ann" ELSE "bob"

\* "c3" is accepted first
ScoresTurn(c) == c # "c3" => conn["c3"] = "open"

LimitInputs ==
  {Undefined, OtherText, InfinityText, Decimal(-10), Decimal(0), Decimal(5), Decimal(10),
   Decimal(25), Decimal(500), Decimal(510)}

NextScores ==
  \/ \E c \in Conns : ScoresTurn(c) /\ Connect(c)
  \/ \E c \in Players : ~Has(c) /\ Join(c, Num(100), Num(100), "", ScoreNickname(c))
  \/ \E c \in Players : EatWithin(c, DbScoreCap) /\ Eat(c)
  \/ \E c \in Players :
        QueriesWithin(TargetStr(c), MaxPending) /\ Hit("c3", TargetStr(c))
  \/ \E i \in 1..MaxPending : DbWrite(i)
  \/ \E i \in 1..MaxPending : DbCount(i)
  \/ \E i \in 1..MaxPending : Settle(i)
  \/ \E q \in LimitInputs : GetHighscores(q)
  \/ \E q \in LimitInputs : GetHighscoresFail(q)

SpecScores == InitAny /\ [][NextScores]_vars

(***************************************************************************)
(* SpecDeath: deaths with a rewarded attacker.  The server runs with or    *)
(* without a database.  "c1" joins as "ann", is killed by "c2", which has  *)
(* joined as "bob" or not at all, and respawns; "c2" moves meanwhile;      *)
(* "c1" may go.  The rank lookups complete, or fail, in any order.         *)
(***************************************************************************)
MaxKills == 2

KillScoreCap == KillReward * MaxKills

DeathNickname(c) == IF c = "c1" THEN "ann" ELSE "bob"

\* "c1" is accepted first
DeathTurn(c) == c = "c2" => conn["c1"] # "new"

NextDeath ==
  \/ \E c \in Clients : DeathTurn(c) /\ Connect(c)
  \/ \E c \in Clients : ~Has(c) /\ Join(c, Num(100), Num(100), "", DeathNickname(c))
  \/ Update("c2", Num(100), Num(100), "")
  \/ /\ QueriesWithin(TargetStr("c1"), MaxPending)
     /\ HitWithin("c2", TargetStr("c1"), KillScoreCap)
     /\ Hit("c2", TargetStr("c1"))
  \/ Has("c1") /\ Respawn("c1", Num(100), Num(100), 0, 0)
  \/ BeginClose("c1")
  \/ Close("c1")
  \/ \E i \in 1..MaxPending : DbWrite(i)
  \/ \E i \in 1..MaxPending : DbCount(i)
  \/ \E i \in 1..MaxPending : DbCountFail(i)
  \/ \E i \in 1..MaxPending : Settle(i)

SpecDeath == InitAny /\ [][NextDeath]_vars

\* every rank lookup completes, by success or by failure, and its callback runs
LookupsComplete ==
  \A i \in 1..MaxPending :
     WF_vars(DbCount(i) \/ DbCountFail(i)) /\ WF_vars(Settle(i))

SpecDeathFair == SpecDeath /\ LookupsComplete

(***************************************************************************)
(* SpecFanout: who is sent what.  A server without a database and three    *)
(* connections, each of which may be not yet accepted, open, closing or    *)
(* closed.  "c1" and "c2" join once; "c1" eats, moves, is hit by "c2" and  *)
(* respawns; everyone attacks; "c3" only listens.                          *)
(***************************************************************************)
NextFanout ==
  \/ \E c \in Conns : Connect(c)
  \/ \E c \in Clients : ~Has(c) /\ Join(c, Num(100), Num(100), "", "ann")
  \/ EatWithin("c1", FoodReward) /\ Eat("c1")
  \/ Update("c1", Num(100), Num(100), "")
  \/ HitWithin("c2", TargetStr("c1"), KillReward) /\ Hit("c2", TargetStr("c1"))
  \/ \E c \in Conns : Attack(c, "east")
  \/ Has("c1") /\ Respawn("c1", Num(100), Num(100), 0, 0)
  \/ \E c \in Conns : BeginClose(c)
  \/ \E c \in Conns : Close(c)

SpecFanout == Init /\ [][NextFanout]_vars

(***************************************************************************)
(* Claims.                                                                 *)
(***************************************************************************)
\* max(0, h - 1), written without the code's Math.max
OneLess(h) == IF h = 0 THEN 0 ELSE h - 1

\* a frame of emitted is a player:updated about id
IsUpdated(f, id) == f.type = "player:updated" /\ f.payload.id = id

\* C2: every player:hit that names a stored target lowers the target's health
\* by exactly 1, floored at 0, so k hits from health H leave max(0, H - k).
C2_HitLowersHealthByOne ==
  [][\A c \in Clients, ptarget \in TargetInputs :
       (Hit(c, ptarget) /\ ~BadTargetId(ptarget) /\ Has(ptarget.s)) =>
          /\ ptarget.s \in DOMAIN players'
          /\ players[ptarget.s].hp \in 0..MAX_HEALTH
          /\ players'[ptarget.s].hp = OneLess(players[ptarget.s].hp)]_vars

\* C2 witness: a hit has just been answered for a target that is at health 0
C2_Witness ==
  /\ Has("c1")
  /\ players["c1"].hp = 0
  /\ Len(emitted) >= 1
  /\ IsUpdated(emitted[1], "c1")
  /\ emitted[1].payload.hp = 0
  /\ emitted[1].to = {"c1", "c2"}

\* C3: in every reachable state every stored player's health is an integer in 0..5.
C3_HealthInRange == \A id \in DOMAIN players : players[id].hp \in 0..MAX_HEALTH

\* C3 witness: a dead player and a player at full health are stored together
C3_Witness ==
  /\ Has("c1") /\ players["c1"].hp = 0
  /\ Has("c2") /\ players["c2"].hp = MAX_HEALTH

\* ptarget names a player of the store
StoredTarget(ptarget) == ~BadTargetId(ptarget) /\ Has(ptarget.s)

\* how many frames of the sequence have the type
CountType(frames, type) == Cardinality({i \in 1..Len(frames) : frames[i].type = type})

\* the two gateway calls of a death: recordHighScore, then getOverallRank
DeathCalls(nickname, score) ==
  << [fn |-> "recordHighScore", nickname |-> nickname, score |-> score],
     [fn |-> "getOverallRank", nickname |-> "", score |-> score] >>

\* C1: whoever sends the hits, the death handling of a target (score reset to 0,
\* stage reset to tadpole, one recordHighScore call, one player:died scheduled for
\* the victim, one +50 kill reward for the sender's player) fires exactly at the
\* hit that moves health from 1 to 0, once, and at no other hit, in particular at
\* no hit on a target whose health is already 0.
C1_DeathHandlingOncePerDeath ==
  [][\A c \in Clients, ptarget \in TargetInputs :
       (Hit(c, ptarget) /\ StoredTarget(ptarget)) =>
          LET t == ptarget.s
              before == players[t]
              after == players'[t]
              summaries == CountType(emitted', "player:died")
              rewards == Cardinality({i \in 2..Len(emitted') : IsUpdated(emitted'[i], c)})
          IN IF before.hp = 1
               THEN /\ IsUpdated(emitted'[1], t)
                    /\ emitted'[1].payload.hp = 0
                    /\ emitted'[1].payload.score = 0
                    /\ emitted'[1].payload.stage = "tadpole"
                    /\ after.hp = 0
                    /\ after.stage = "tadpole"
                    /\ after.score = (IF c = t THEN KillReward ELSE 0)
                    /\ called' = DeathCalls(before.nickname, before.score)
                    /\ summaries = (IF ~pool /\ conn[t] = "open" THEN 1 ELSE 0)
                    /\ Len(lookups') = Len(lookups) + (IF pool THEN 1 ELSE 0)
                    /\ rewards = (IF Has(c) THEN 1 ELSE 0)
                    /\ (Has(c) /\ c # t) => players'[c].score = players[c].score + KillReward
               ELSE /\ called' = << >>
                    /\ summaries = 0
                    /\ lookups' = lookups
                    /\ Len(emitted') = 1
                    /\ \A k \in DOMAIN players :
                         /\ players'[k].score = players[k].score
                         /\ players'[k].stage = players[k].stage]_vars

\* C1 witness: the lethal hit of c2 on c1 has just been handled
C1_Witness ==
  /\ called # << >>
  /\ Has("c1") /\ players["c1"].hp = 0 /\ players["c1"].score = 0
  /\ Has("c2") /\ players["c2"].score = KillReward
  /\ Len(emitted) = 3
  /\ emitted[3].type = "player:died"

\* the join payloads of Spec
JoinStep(c) == \E pstage \in StageInputs : Join(c, Num(100), Num(100), pstage, "ann")

\* C5 (as claimed): a player is in the store exactly while its connection is live
\* and has joined: only a join puts it there, only the close of its connection
\* removes it, and no closed connection has a player.
C5_PlayerIffLiveAndJoined ==
  /\ [](\A c \in DOMAIN players : conn[c] \in {"open", "closing"})
  /\ [][\A c \in Clients :
          /\ (~Has(c) /\ c \in DOMAIN players') => JoinStep(c)
          /\ (Has(c) /\ c \notin DOMAIN players') => Close(c)]_vars

\* C6: a lethal hit adds exactly +50 to the score of the sender's player (on top
\* of the reset, when the sender is the victim), changes no third player's score
\* and broadcasts the sender's player:updated to every open client; a hit that
\* does not kill changes no score at all.
C6_KillRewardToSender ==
  [][\A c \in Clients, ptarget \in TargetInputs :
       (Hit(c, ptarget) /\ StoredTarget(ptarget)) =>
          LET t == ptarget.s IN
          IF players[t].hp = 1
            THEN /\ \A k \in DOMAIN players :
                      players'[k].score =
                        (IF k = t THEN 0 ELSE players[k].score) + (IF k = c THEN KillReward ELSE 0)
                 /\ Has(c) =>
                      /\ Len(emitted') >= 2
                      /\ IsUpdated(emitted'[2], c)
                      /\ emitted'[2].payload.score = players'[c].score
                      /\ emitted'[2].to = OpenClients
            ELSE \A k \in DOMAIN players : players'[k].score = players[k].score]_vars

\* C6 witness: c2, who had eaten once, has just killed c1
C6_Witness ==
  /\ Has("c1") /\ players["c1"].hp = 0
  /\ Has("c2") /\ players["c2"].score = FoodReward + KillReward
  /\ Len(emitted) >= 2
  /\ IsUpdated(emitted[2], "c2")
  /\ emitted[2].payload.score = FoodReward + KillReward

\* C7 (as claimed): after a kill reward that brings the sender's score to 50 or
\* more, the sender's stage is frog in the store and in its player:updated.
C7_KillRewardPromotes ==
  [][\A c \in Clients, ptarget \in TargetInputs :
       (Hit(c, ptarget) /\ StoredTarget(ptarget) /\ players[ptarget.s].hp = 1
          /\ Has(c) /\ c # ptarget.s /\ players'[c].score >= FrogThreshold) =>
          /\ players'[c].stage = "frog"
          /\ emitted'[2].payload.stage = "frog"]_vars

\* C8: every food:eat of a stored player adds exactly 10 to its score; its stage
\* is frog after the eat as soon as the new score is 50 or more and is otherwise
\* what it was, so it stays frog through later eats; nobody else changes; and one
\* player:updated with the new score and stage goes to every open client.
C8_EatAddsTenAndPromotes ==
  [][\A c \in Clients :
       (Eat(c) /\ Has(c)) =>
          /\ players'[c].score = players[c].score + 10
          /\ players'[c].stage =
               (IF players'[c].score >= 50 THEN "frog" ELSE players[c].stage)
          /\ (players[c].stage = "frog" => players'[c].stage = "frog")
          /\ players'[c].hp = players[c].hp
          /\ \A k \in DOMAIN players \ {c} : players'[k] = players[k]
          /\ Len(emitted') = 1
          /\ IsUpdated(emitted'[1], c)
          /\ emitted'[1].payload.score = players'[c].score
          /\ emitted'[1].payload.stage = players'[c].stage
          /\ emitted'[1].to = OpenClients]_vars

\* C8 witness: c2 has just eaten its way to score 60 and is a frog
C8_Witness ==
  /\ Has("c2")
  /\ players["c2"].score = 60
  /\ players["c2"].stage = "frog"
  /\ Len(emitted) = 1
  /\ IsUpdated(emitted[1], "c2")
  /\ emitted[1].payload.score = 60
  /\ emitted[1].to = {"c1", "c2"}

\* the died frames among the frames sent
DiedFrames == {i \in 1..Len(emitted) : emitted[i].type = "player:died"}

\* C4: in the scenario (both join, c1 eats five times, c2 hits c1 five times) c1
\* has score 50 and stage frog after the fifth eat; after the fifth hit c1 has
\* health 0, score 0 and stage tadpole, c2's score has gone from 0 to 50, and the
\* player:died for c1 goes to c1 alone with score 50: in the step of the fifth
\* hit without a database, when the rank lookup settles with one.
C4_ScenarioKill ==
  /\ []((BothJoined /\ players["c1"].score = FrogThreshold) => players["c1"].stage = "frog")
  /\ []((BothJoined /\ players["c1"].hp > 0) => players["c2"].score = 0)
  /\ []((BothJoined /\ players["c1"].hp = 0) =>
          /\ players["c1"].score = 0
          /\ players["c1"].stage = "tadpole"
          /\ players["c2"].score = 0 + KillReward
          /\ ~pool => (called # << >> /\ Len(emitted) = 3 /\ DiedFrames = {3}))
  /\ [](\A i \in DiedFrames :
          /\ emitted[i].to = {"c1"}
          /\ emitted[i].payload.score = 50
          /\ emitted[i].payload.mapRank = 1)
  /\ [][Settle(1) => (Len(emitted') = 1 /\ emitted'[1].type = "player:died")]_vars

\* C4 witness: c1, who joined as a tadpole, is dead and has its death summary
C4_Witness ==
  /\ BothJoined
  /\ players["c1"].hp = 0
  /\ players["c2"].score = KillReward
  /\ DiedFrames # {}
  /\ \A i \in DiedFrames : emitted[i].payload.score = 50 /\ emitted[i].to = {"c1"}

\* the coordinate is a finite number
Finite(v) == v.t = "number"

\* the coordinate is a number within lo..hi
Within(v, lo, hi) == v.t = "number" /\ lo <= v.v /\ v.v <= hi

\* C9: a player:respawn of a stored player gives health 5, score 0, stage
\* tadpole, the same color and nickname, whatever the payload; each coordinate
\* is the supplied one when that is a finite number and otherwise a spawn point
\* with 80 <= x <= 560 and 80 <= y <= 400; nobody else changes, no colour is
\* drawn, and the result goes to every open client as one player:updated.
C9_RespawnResets ==
  [][\A p \in CoordPayloads, r \in RandomInputs :
       (Has("c1") /\ Respawn("c1", p.x, p.y, r.x, r.y)) =>
          LET next == players'["c1"] IN
          /\ next.hp = 5
          /\ next.score = 0
          /\ next.stage = "tadpole"
          /\ next.color = players["c1"].color
          /\ next.nickname = players["c1"].nickname
          /\ IF Finite(p.x) THEN next.x = p.x ELSE Within(next.x, 80, 560)
          /\ IF Finite(p.y) THEN next.y = p.y ELSE Within(next.y, 80, 400)
          /\ colorIndex' = colorIndex
          /\ DOMAIN players' = DOMAIN players
          /\ emitted' = << [type |-> "player:updated", to |-> OpenClients,
                            payload |-> [id |-> "c1", x |-> next.x, y |-> next.y,
                                         stage |-> "tadpole", hp |-> 5, score |-> 0,
                                         color |-> next.color]] >>]_vars

\* C9 witness: c1 was dead, sent a respawn whose x is not a finite number and
\* whose y is 200, and stands at the far end of the spawn range
C9_Witness ==
  /\ Has("c1")
  /\ players["c1"].hp = 5
  /\ players["c1"].x = Num(559)
  /\ players["c1"].y = Num(200)
  /\ Len(emitted) = 1
  /\ IsUpdated(emitted[1], "c1")
  /\ emitted[1].to = {"c1", "c2"}

\* the players of the store whose score is strictly greater than S
Better(S) == {k \in DOMAIN players : players[k].score > S}

\* C10: the mapRank of a death with pre-death score S is the number of players
\* in the store, when the lethal hit is handled, whose score is strictly greater
\* than S, plus 1 (the victim counts with S, equal scores share the best rank).
C10_MapRankCountsBetter ==
  [][\A c \in Conns :
       (Hit(c, TargetStr("c1")) /\ Has("c1") /\ players["c1"].hp = 1 /\ conn["c1"] = "open") =>
          LET S == players["c1"].score
              last == emitted'[Len(emitted')]
          IN /\ last.type = "player:died"
             /\ last.to = {"c1"}
             /\ last.payload.score = S
             /\ last.payload.mapRank = Cardinality(Better(S)) + 1]_vars

\* C10 witness: c1 died with score 10 while the others had 10 and 20: rank 2 of 3
C10_Witness ==
  /\ DiedFrames # {}
  /\ \A i \in DiedFrames : emitted[i].payload.mapRank = 2 /\ emitted[i].payload.score = 10
  /\ Has("c2") /\ Has("c3")
  /\ {players["c2"].score, players["c3"].score} = {10, 20}

\* the stored ranking records whose best score is strictly greater than S
BetterRecords(S) == {n \in DOMAIN scores : scores[n] > S}

\* C11: with a pool, a lethal hit asks for the rank of the victim's pre-death
\* score S; the SELECT answers (the number of stored records whose best score is
\* strictly greater than S) + 1, counted when it runs; and the player:died sent
\* when the answer has arrived carries S and that number as overallRank.
C11_OverallRankCountsBetter ==
  [][/\ \A c \in Players :
          (Hit("c3", TargetStr(c)) /\ Has(c) /\ players[c].hp = 1 /\ pool) =>
             /\ Len(lookups') = Len(lookups) + 1
             /\ lookups'[Len(lookups')].target = c
             /\ lookups'[Len(lookups')].score = players[c].score
             /\ CountType(emitted', "player:died") = 0
     /\ \A i \in 1..MaxPending :
          /\ DbCount(i) =>
               lookups' = [lookups EXCEPT ![i].overallRank =
                             [isNull |-> FALSE,
                              n |-> Cardinality(BetterRecords(lookups[i].score)) + 1]]
          /\ (Settle(i) /\ conn[lookups[i].target] = "open") =>
               emitted' = << [type |-> "player:died", to |-> {lookups[i].target},
                              payload |-> [score |-> lookups[i].score,
                                           mapRank |-> lookups[i].mapRank,
                                           overallRank |-> lookups[i].overallRank]] >>]_vars

\* C11 witness: a death with score 0 is ranked second behind a record of 10
C11_Witness ==
  /\ pool
  /\ DiedFrames # {}
  /\ \A i \in DiedFrames :
       /\ emitted[i].payload.score = 0
       /\ emitted[i].payload.overallRank = [isNull |-> FALSE, n |-> 2]
  /\ BetterRecords(0) # {}

\* C12 (as claimed): the shared colour counter is the number of joins handled so
\* far: a join takes palette[counter mod 8] and advances the counter by one, and
\* no other step moves the counter, so the Nth join gets palette[(N - 1) mod 8].
C12_ColorCounterCountsJoins ==
  [][/\ \A c \in Clients :
          JoinStep(c) => /\ players'[c].color = palette[(colorIndex % 8) + 1]
                         /\ colorIndex' = colorIndex + 1
     /\ colorIndex' # colorIndex => \E c \in Clients : JoinStep(c)]_vars

\* the player:died frames a step may send for victim v with pre-death score S:
\* one frame, for v alone, when v's socket is open, and nothing otherwise
OnlyToVictim(frames, v, S) ==
  LET died == {i \in 1..Len(frames) : frames[i].type = "player:died"}
  IN /\ Cardinality(died) = (IF conn[v] = "open" THEN 1 ELSE 0)
     /\ \A i \in died : frames[i].to = {v} /\ frames[i].payload.score = S

\* C13: player:died goes to the victim's connection alone, is dropped when that
\* socket is no longer open, and carries the victim's score from just before the
\* reset: without a pool it is sent in the step of the lethal hit, with a pool in
\* the step that settles the rank lookup of that death; no other step sends one.
C13_DiedOnlyToVictim ==
  [][/\ \A c \in Players :
          (Hit("c3", TargetStr(c)) /\ Has(c) /\ players[c].hp = 1) =>
             /\ players'[c].score = 0
             /\ IF pool
                  THEN /\ CountType(emitted', "player:died") = 0
                       /\ lookups'[Len(lookups')].target = c
                       /\ lookups'[Len(lookups')].score = players[c].score
                  ELSE OnlyToVictim(emitted', c, players[c].score)
     /\ \A i \in 1..MaxPending :
          Settle(i) => /\ OnlyToVictim(emitted', lookups[i].target, lookups[i].score)
                       /\ Len(emitted') <= 1
     /\ CountType(emitted', "player:died") > 0 =>
          \/ \E i \in 1..MaxPending : Settle(i)
          \/ \E c \in Players : Hit("c3", TargetStr(c)) /\ Has(c) /\ players[c].hp = 1]_vars

\* C13 witness: c1 died with score 10, its score is reset, and the frame with
\* score 10 went to c1 alone although c3 is open as well
C13_Witness ==
  /\ conn["c3"] = "open"
  /\ Has("c1") /\ players["c1"].score = 0 /\ players["c1"].hp = 0
  /\ DiedFrames # {}
  /\ \A i \in DiedFrames : emitted[i].to = {"c1"} /\ emitted[i].payload.score = 10

\* the payload field is missing or is not a number
NotANumber(v) == v.t \in {"string", "undefined", "null"}

\* the stored coordinate as a JSON frame shows it
Shown(v) == IF v.t = "number" THEN v ELSE [t |-> "null", v |-> 0]

\* C14: a player:update of a stored player keeps each of x, y and stage that is
\* missing or of the wrong type (and takes the others), never changes health,
\* score, color, nickname or another player, and sends one player:updated, to
\* every open client but the sender, that carries the values now stored.
C14_UpdateKeepsWhatIsMalformed ==
  [][\A p \in MovePayloads, pstage \in MoveStages :
       (Has("c1") /\ Update("c1", p.x, p.y, pstage)) =>
          LET prev == players["c1"]
              next == players'["c1"]
          IN /\ next.x = (IF NotANumber(p.x) THEN prev.x ELSE p.x)
             /\ next.y = (IF NotANumber(p.y) THEN prev.y ELSE p.y)
             /\ next.stage = (IF pstage \in {"frog", "tadpole"} THEN pstage ELSE prev.stage)
             /\ next.hp = prev.hp
             /\ next.score = prev.score
             /\ next.color = prev.color
             /\ next.nickname = prev.nickname
             /\ DOMAIN players' = DOMAIN players
             /\ colorIndex' = colorIndex
             /\ emitted' = << [type |-> "player:updated", to |-> OpenClients \ {"c1"},
                               payload |-> [id |-> "c1", x |-> Shown(next.x), y |-> Shown(next.y),
                                            stage |-> next.stage, hp |-> next.hp,
                                            score |-> next.score, color |-> next.color]] >>]_vars

\* C14 witness: c1 stood at x = 100 and sent an update whose x is a string and
\* whose y is 1e999: x is still 100, and c2 is told x = 100
C14_Witness ==
  /\ Has("c1")
  /\ players["c1"].x = Num(100)
  /\ players["c1"].y = Infinity
  /\ Len(emitted) = 1
  /\ IsUpdated(emitted[1], "c1")
  /\ emitted[1].to = {"c2"}
  /\ emitted[1].payload.x = Num(100)

\* the targetId is missing, is not a string, is empty or names no stored player
NamesNoPlayer(ptarget) ==
  ptarget.t # "string" \/ ptarget.s = "" \/ ptarget.s \notin DOMAIN players

\* C15: a player:hit whose targetId is missing, is not a string or names no
\* player of the store changes nothing and sends nothing, to anybody, and makes
\* no gateway call; a hit that names a stored player is answered.
C15_HitOnNobodyIsSilent ==
  [][\A c \in Clients, ptarget \in TargetInputs :
       Hit(c, ptarget) =>
          IF NamesNoPlayer(ptarget)
            THEN /\ players' = players
                 /\ emitted' = << >>
                 /\ called' = << >>
                 /\ UNCHANGED << conn, colorIndex, scores, writes, lookups >>
            ELSE /\ Len(emitted') >= 1
                 /\ IsUpdated(emitted'[1], ptarget.s)]_vars

\* C15 witness: c2 has a player, c1 has none, both are open, and the last frame
\* handled (such as c2's hit naming c1) changed nothing and sent nothing
C15_Witness ==
  /\ conn["c1"] = "open" /\ conn["c2"] = "open"
  /\ Has("c2") /\ ~Has("c1")
  /\ players["c2"].hp = MAX_HEALTH /\ players["c2"].score = 0
  /\ emitted = << >>
  /\ called = << >>

\* C16 (as claimed): a player:hit from a connection that has no player changes
\* nobody's health, score or stage and sends nothing.
C16_HitBeforeJoinIsNoOp ==
  [][\A c \in Clients, ptarget \in TargetInputs :
       (Hit(c, ptarget) /\ ~Has(c)) => (players' = players /\ emitted' = << >>)]_vars

\* C17 (as claimed): while a connection has a player, no step changes that
\* player's nickname, a repeated join of the connection included.
C17_NicknameSetOnce ==
  [][\A c \in Clients :
       (Has(c) /\ c \in DOMAIN players') => players'[c].nickname = players[c].nickname]_vars

\* the frames of the sequence that are not player:died
Broadcasts(frames) == SelectSeq(frames, LAMBDA f : f.type # "player:died")

\* overallRank: null
NoRank == [isNull |-> TRUE, n |-> 0]

\* the player:died of victim v with pre-death score S and no overall rank, when
\* v's socket is open
DiedWithoutRank(frames, v, S) ==
  conn[v] = "open" =>
    /\ Len(frames) >= 1
    /\ frames[Len(frames)].type = "player:died"
    /\ frames[Len(frames)].to = {v}
    /\ frames[Len(frames)].payload.score = S
    /\ frames[Len(frames)].payload.overallRank = NoRank

\* C18: without a pool recordHighScore and getOverallRank touch no store and the
\* rank is null; with a pool, a failed INSERT leaves the table as it was and a
\* failed SELECT gives the rank null.  A lethal hit changes the player store and
\* broadcasts the same in all these cases as with a working store, and the
\* victim, if still connected, gets its player:died with overallRank null.
C18_StoreFailureIsHarmless ==
  /\ [](~pool => (scores = << >> /\ writes = << >> /\ lookups = << >>))
  /\ [][/\ \A c \in Players :
             (Hit("c3", TargetStr(c)) /\ Has(c) /\ players[c].hp = 1) =>
                LET dead == [players[c] EXCEPT !.hp = 0, !.score = 0, !.stage = "tadpole"] IN
                /\ players' = [players EXCEPT ![c] = dead]
                /\ Broadcasts(emitted') =
                     << [type |-> "player:updated", to |-> OpenClients,
                         payload |-> [id |-> c, x |-> Shown(dead.x), y |-> Shown(dead.y),
                                      stage |-> "tadpole", hp |-> 0, score |-> 0,
                                      color |-> dead.color]] >>
                /\ scores' = scores
                /\ ~pool => DiedWithoutRank(emitted', c, players[c].score)
        /\ \A i \in 1..MaxPending :
             /\ DbWriteFail(i) =>
                  (scores' = scores /\ players' = players /\ lookups' = lookups /\ emitted' = << >>)
             /\ DbCountFail(i) =>
                  /\ lookups' = [lookups EXCEPT ![i].overallRank = NoRank]
                  /\ scores' = scores /\ players' = players /\ emitted' = << >>
             /\ (Settle(i) /\ lookups[i].overallRank = NoRank) =>
                  /\ DiedWithoutRank(emitted', lookups[i].target, lookups[i].score)
                  /\ players' = players]_vars

\* C18 witness: with a pool whose INSERT and SELECT both failed, the victim has
\* its player:died with score 10 and overallRank null, and the table is empty
C18_Witness ==
  /\ pool
  /\ scores = << >> /\ writes = << >> /\ lookups = << >>
  /\ DiedFrames # {}
  /\ \A i \in DiedFrames :
       emitted[i].payload.overallRank = NoRank /\ emitted[i].payload.score = 10

\* the records recordHighScore may be given
RecordInputs == [nickname : {"ann", "bob"}, score : {0, 10, 20}]

\* the table after the INSERT of record w has been executed on table t
Recorded(t, w) == Upsert(t, w.nickname, w.score)

\* the larger of two scores
Larger(a, b) == IF a > b THEN a ELSE b

\* C19: an executed INSERT of recordHighScore leaves, for its nickname, the larger
\* of the stored best score and the new score (the new score when there was no
\* record) and touches no other record; no step ever lowers or removes a record;
\* so each record is the maximum ever recorded for its nickname.  On every table
\* reached, recording twice is recording once, and a recording and an INSERT that
\* is in flight give the same table in either order; the record is found by the
\* nickname alone, whoever died.
C19_BestScoreIsMaximum ==
  /\ [](\A a \in RecordInputs :
          /\ Recorded(Recorded(scores, a), a) = Recorded(scores, a)
          /\ \A i \in 1..Len(writes) :
               Recorded(Recorded(scores, a), writes[i]) = Recorded(Recorded(scores, writes[i]), a))
  /\ [][/\ \A n \in DOMAIN scores : n \in DOMAIN scores' /\ scores'[n] >= scores[n]
        /\ \A i \in 1..MaxPending :
             DbWrite(i) =>
               LET n == writes[i].nickname
                   v == writes[i].score
               IN /\ DOMAIN scores' = DOMAIN scores \cup {n}
                  /\ scores'[n] = (IF n \in DOMAIN scores THEN Larger(scores[n], v) ELSE v)
                  /\ \A k \in DOMAIN scores \ {n} : scores'[k] = scores[k]
        /\ scores' # scores => \E i \in 1..MaxPending : DbWrite(i)]_vars

\* C19 witness: c1 has gone; c2, playing as "ann", died with score 0 and its
\* INSERT has left the queue; the one record of "ann" is still 10
C19_Witness ==
  /\ conn["c1"] = "closed"
  /\ Has("c2") /\ players["c2"].nickname = "ann" /\ players["c2"].hp = 0
  /\ writes = << >>
  /\ lookups # << >> /\ lookups[1].target = "c2" /\ lookups[1].score = 0
  /\ DOMAIN scores = {"ann"}
  /\ scores["ann"] = 10

\* C20: when a connection closes, its player, if it has one, is removed, nobody
\* else changes, and exactly one player:left with its id goes to every other
\* open connection; if it has no player, the store is unchanged and nothing is
\* sent.
C20_CloseRemovesAndAnnounces ==
  [][\A c \in Clients :
       Close(c) =>
          IF Has(c)
            THEN /\ DOMAIN players' = DOMAIN players \ {c}
                 /\ \A k \in DOMAIN players' : players'[k] = players[k]
                 /\ emitted' = << [type |-> "player:left", to |-> OpenClients \ {c},
                                   payload |-> [id |-> c]] >>
            ELSE /\ players' = players
                 /\ emitted' = << >>]_vars

\* C20 witness: c1 had a player and has closed; c2, who has one too, is told
C20_Witness ==
  /\ conn["c1"] = "closed"
  /\ ~Has("c1")
  /\ Has("c2")
  /\ emitted = << [type |-> "player:left", to |-> {"c2"}, payload |-> [id |-> "c1"]] >>

\* a player:join of "c1" with one of the payloads of SpecCoords
JoinStepCoords(c) ==
  \E p \in CoordPayloads, pstage \in JoinStages, pnick \in NicknameInputs :
     Join(c, p.x, p.y, pstage, pnick)

\* C17 (amended): the nickname of a stored player changes only by a player:join
\* of its own connection, which sets it to the payload nickname ("Player" when
\* there is none); no other intent of any connection changes it.
C17_NicknameChangesOnlyByJoin ==
  [][\A c \in Clients :
       (Has(c) /\ c \in DOMAIN players' /\ players'[c].nickname # players[c].nickname)
          => JoinStepCoords(c)]_vars

\* "c1" is stored as "ann" by its second join, and "c2" was told
C17_Witness ==
  /\ Has("c1")
  /\ players["c1"].nickname = "ann"
  /\ colorIndex = 2
  /\ Len(emitted) = 2
  /\ emitted[2].type = "player:joined"
  /\ emitted[2].payload.nickname = "ann"
  /\ emitted[2].to = {"c2"}

\* C21: a player:join stores for the sender a player with health 5, score 0, the
\* payload nickname and stage tadpole unless the payload stage is frog, whether
\* or not the sender had a player before; nobody else changes; the sender is
\* first sent player:updated with that state, and then player:joined goes to
\* every other open client and never to the sender.
C21_JoinCreatesFreshState ==
  [][\A p \in CoordPayloads, pstage \in JoinStages, pnick \in NicknameInputs :
       Join("c1", p.x, p.y, pstage, pnick) =>
          /\ DOMAIN players' = DOMAIN players \cup {"c1"}
          /\ \A k \in DOMAIN players \ {"c1"} : players'[k] = players[k]
          /\ players'["c1"].hp = MAX_HEALTH
          /\ players'["c1"].score = 0
          /\ players'["c1"].nickname = (IF pnick = "" THEN "Player" ELSE pnick)
          /\ players'["c1"].stage = (IF pstage = "frog" THEN "frog" ELSE "tadpole")
          /\ players'["c1"].color = palette[(colorIndex % 8) + 1]
          /\ colorIndex' = colorIndex + 1
          /\ Len(emitted') = 2
          /\ IsUpdated(emitted'[1], "c1")
          /\ emitted'[1].to = {"c1"}
          /\ emitted'[1].payload.hp = MAX_HEALTH
          /\ emitted'[1].payload.score = 0
          /\ emitted'[1].payload.stage = players'["c1"].stage
          /\ emitted'[1].payload.color = players'["c1"].color
          /\ emitted'[2].type = "player:joined"
          /\ emitted'[2].to = OpenClients \ {"c1"}
          /\ emitted'[2].payload.id = "c1"
          /\ emitted'[2].payload.hp = MAX_HEALTH
          /\ emitted'[2].payload.score = 0
          /\ emitted'[2].payload.stage = players'["c1"].stage
          /\ emitted'[2].payload.nickname = players'["c1"].nickname]_vars

\* "c1" drew its second colour by a join without stage or nickname, in front
\* of "c2": the confirmation went to "c1", the announcement to "c2"
C21_Witness ==
  /\ Has("c1")
  /\ colorIndex = 2
  /\ players["c1"].color = palette[2]
  /\ players["c1"].stage = "tadpole"
  /\ players["c1"].nickname = "Player"
  /\ Len(emitted) = 2
  /\ IsUpdated(emitted[1], "c1")
  /\ emitted[1].to = {"c1"}
  /\ emitted[2].type = "player:joined"
  /\ emitted[2].to = {"c2"}

\* C22: the player:updated of a player:update goes to every other open client
\* and never to the sender; a player:update from a connection that has no
\* player changes nothing and sends nothing.
C22_UpdateGoesToOthers ==
  [][\A c \in Clients, pstage \in StageInputs :
       Update(c, Num(100), Num(100), pstage) =>
          IF Has(c)
            THEN /\ Len(emitted') = 1
                 /\ IsUpdated(emitted'[1], c)
                 /\ emitted'[1].to = {k \in Clients : conn[k] = "open" /\ k # c}
                 /\ c \notin emitted'[1].to
            ELSE /\ players' = players
                 /\ colorIndex' = colorIndex
                 /\ conn' = conn
                 /\ emitted' = << >>
                 /\ called' = << >>]_vars

\* the update of "c1", at full health, was sent to "c2" alone although "c1" is open
C22_Witness ==
  /\ conn["c1"] = "open"
  /\ conn["c2"] = "open"
  /\ Has("c1")
  /\ players["c1"].hp = MAX_HEALTH
  /\ Len(emitted) = 1
  /\ IsUpdated(emitted[1], "c1")
  /\ emitted[1].to = {"c2"}

\* C23: a player:attack leaves the player store and the color counter as they
\* were, whoever sends it and however often; all it does is relay one
\* player:attack {id, heading} to every other open client.
C23_AttackIsRelayOnly ==
  [][\A c \in Clients :
       Attack(c, "east") =>
          /\ players' = players
          /\ colorIndex' = colorIndex
          /\ conn' = conn
          /\ called' = << >>
          /\ emitted' = << [type |-> "player:attack",
                            to |-> {k \in Clients : conn[k] = "open" /\ k # c},
                            payload |-> [id |-> c, heading |-> "east"]] >>]_vars

\* the attack of "c1", which is dead, was relayed to "c2"
C23_Witness ==
  /\ Has("c1")
  /\ players["c1"].hp = 0
  /\ emitted = << [type |-> "player:attack", to |-> {"c2"},
                   payload |-> [id |-> "c1", heading |-> "east"]] >>

\* C24: a frame that is not JSON, or whose type is no known intent, leaves the
\* player store unchanged, sends nothing and leaves the connection open, so
\* that the frames that follow on it are handled.
C24_BadFrameIsIgnored ==
  [][\A c \in Clients :
       BadFrame(c) =>
          /\ players' = players
          /\ colorIndex' = colorIndex
          /\ conn' = conn
          /\ conn'[c] = "open"
          /\ emitted' = << >>
          /\ called' = << >>]_vars

\* both players are stored, "c1" has eaten, both connections are open and the
\* last frame had no effect
C24_Witness ==
  /\ conn["c1"] = "open"
  /\ conn["c2"] = "open"
  /\ Has("c1")
  /\ Has("c2")
  /\ players["c1"].score = FoodReward
  /\ emitted = << >>
  /\ called = << >>

\* a player:respawn of the connection
RespawnStep(c) == Respawn(c, Num(100), Num(100), 0, 0)

\* C25 (as claimed): the health of a stored player that is 0 is raised only by
\* a player:respawn of that player's connection.
C25_DeadUntilRespawn ==
  [][\A c \in Clients :
       (Has(c) /\ players[c].hp = 0 /\ c \in DOMAIN players' /\ players'[c].hp # 0)
          => RespawnStep(c)]_vars

\* C25 (amended): the health of a stored player that is 0 is raised only by a
\* player:respawn or a player:join of that player's connection, and then to 5.
C25_DeadUntilRespawnOrJoin ==
  [][\A c \in Clients :
       (Has(c) /\ players[c].hp = 0 /\ c \in DOMAIN players' /\ players'[c].hp # 0)
          => /\ RespawnStep(c) \/ JoinStep(c)
             /\ players'[c].hp = MAX_HEALTH]_vars

\* "c1" is dead and has just moved: "c2" was told, with health 0
C25_Witness ==
  /\ conn["c1"] = "open"
  /\ Has("c1")
  /\ players["c1"].hp = 0
  /\ Len(emitted) = 1
  /\ IsUpdated(emitted[1], "c1")
  /\ emitted[1].payload.hp = 0
  /\ emitted[1].to = {"c2"}

\* the frame is about a player and carries its id
AboutPlayer(f) == f.type \in {"player:updated", "player:joined", "player:attack"}

\* C26: the step that accepts a connection sends it one players:sync, with its
\* own id as selfId and a snapshot of exactly the players then stored; no other
\* step sends a players:sync; before that step the connection is sent nothing
\* and has no player; the players and the frames about them carry that id.
C26_SyncIsFirst ==
  /\ [](/\ \A c \in Clients : conn[c] = "new" => ~Has(c)
        /\ \A i \in 1..Len(emitted) :
             /\ \A c \in emitted[i].to : conn[c] # "new"
             /\ AboutPlayer(emitted[i]) => conn[emitted[i].payload.id] # "new")
  /\ [][/\ \A c \in Clients :
             Connect(c) =>
                /\ conn[c] = "new"
                /\ Len(emitted') = 1
                /\ emitted'[1].type = "players:sync"
                /\ emitted'[1].to = {c}
                /\ emitted'[1].payload.selfId = c
                /\ DOMAIN emitted'[1].payload.players = DOMAIN players
                /\ \A k \in DOMAIN players :
                     LET s == emitted'[1].payload.players[k]
                     IN /\ s.hp = players[k].hp
                        /\ s.score = players[k].score
                        /\ s.stage = players[k].stage
                        /\ s.color = players[k].color
                        /\ s.nickname = players[k].nickname
                        /\ s.x = Shown(players[k].x)
                        /\ s.y = Shown(players[k].y)
        /\ (\E i \in 1..Len(emitted') : emitted'[i].type = "players:sync")
              => \E c \in Clients : Connect(c)]_vars

\* "c2" was accepted after "c1" had joined and eaten: its players:sync shows "c1"
C26_Witness ==
  /\ Len(emitted) = 1
  /\ emitted[1].type = "players:sync"
  /\ emitted[1].to = {"c2"}
  /\ emitted[1].payload.selfId = "c2"
  /\ DOMAIN emitted[1].payload.players = {"c1"}
  /\ emitted[1].payload.players["c1"].score = FoodReward

\* the limit the request asks for is a positive number
PositiveLimit(q) == q.t = "infinity" \/ (q.t = "decimal" /\ q.v > 0)

\* the rows are in non-increasing order of score
Descending(rows) == \A i, j \in DOMAIN rows : i < j => rows[i].score >= rows[j].score

\* the rows are records of the table, each at most once
StoredRows(rows) ==
  /\ \A i \in DOMAIN rows :
       rows[i].nickname \in DOMAIN scores /\ rows[i].score = scores[rows[i].nickname]
  /\ \A i, j \in DOMAIN rows : i # j => rows[i].nickname # rows[j].nickname

\* the smaller of the two
Least(a, b) == IF a <= b THEN a ELSE b

\* C27 (as claimed): a highscores request that succeeds returns stored records
\* in non-increasing order of score, the N best of them, where N is 10 when
\* the limit is missing or no positive number and otherwise between 1 and 50
\* and no more than the limit asked for; without a database it returns the
\* empty list.
C27_HighscoresTopN ==
  [][\A q \in LimitInputs :
       GetHighscores(q) =>
          LET rows == emitted'[1].payload.body
              n == Len(rows)
              size == Cardinality(DOMAIN scores)
          IN /\ Len(emitted') = 1
             /\ emitted'[1].payload.status = 200
             /\ ~pool => rows = << >>
             /\ pool =>
                  /\ StoredRows(rows)
                  /\ Descending(rows)
                  /\ ~PositiveLimit(q) => n = Least(DefaultLimit, size)
                  /\ PositiveLimit(q) =>
                       /\ n <= MaxLimit
                       /\ q.t = "decimal" => n * 10 <= q.v
                       /\ n >= Least(1, size)]_vars

\* the player of c has just died: its health has come down to 0
DeathEdge(c) == players[c].hp > 0 /\ players'[c].hp = 0

\* a player:update of the connection that carries the stage
UpdateStepWith(c, pstage) == Update(c, Num(100), Num(100), pstage)

C29_HitOnDeadIsSilent ==
  [][\A c \in Clients, ptarget \in TargetInputs :
       (Hit(c, ptarget) /\ StoredTarget(ptarget) /\ players[ptarget.s].hp = 0) =>
          (players' = players /\ emitted' = << >>)]_vars

\* the payload of the join lacks a number for x or for y, or lacks a nickname
MalformedJoin(p, pnick) == NotANumber(p.x) \/ NotANumber(p.y) \/ pnick = ""

\* C30 (as claimed): a player:join whose x or y is not a number, or that has no
\* nickname, creates or overwrites no player, draws no colour and sends nothing.
C30_MalformedJoinDiscarded ==
  [][\A p \in CoordPayloads, pstage \in JoinStages, pnick \in NicknameInputs :
       (Join("c1", p.x, p.y, pstage, pnick) /\ MalformedJoin(p, pnick)) =>
          (players' = players /\ colorIndex' = colorIndex /\ emitted' = << >>)]_vars

\* the hit of "c2" that kills "c1"
LethalHit == Hit("c2", TargetStr("c1")) /\ Has("c1") /\ players["c1"].hp = 1

\* a player:update of the connection in SpecDeath
MoveStep(c) == Update(c, Num(100), Num(100), "")

\* C31: the step of a lethal hit stores the victim's reset and the attacker's
\* reward and sends the victim's player:updated (health 0) and then the
\* attacker's; a player:died of that step comes after them, and with a lookup
\* in flight it is not in that step at all; while lookups are in flight the
\* other intents are handled as ever; and the steps that complete a lookup
\* change no player and send nothing but player:died.
C31_OnlyDiedIsLate ==
  /\ []((lookups # << >> /\ conn["c2"] = "open") => ENABLED MoveStep("c2"))
  /\ [][/\ LethalHit =>
             /\ players'["c1"].hp = 0
             /\ players'["c1"].score = 0
             /\ players'["c1"].stage = "tadpole"
             /\ Len(emitted') >= 1
             /\ IsUpdated(emitted'[1], "c1")
             /\ emitted'[1].payload.hp = 0
             /\ emitted'[1].payload.score = 0
             /\ emitted'[1].to = OpenClients
             /\ Has("c2") =>
                  /\ players'["c2"].score = players["c2"].score + KillReward
                  /\ Len(emitted') >= 2
                  /\ IsUpdated(emitted'[2], "c2")
                  /\ emitted'[2].payload.score = players'["c2"].score
                  /\ emitted'[2].to = OpenClients
             /\ \A i \in 1..Len(emitted') :
                  emitted'[i].type = "player:died" =>
                     i = Len(emitted') /\ i > (IF Has("c2") THEN 2 ELSE 1)
             /\ pool => /\ CountType(emitted', "player:died") = 0
                        /\ Len(lookups') = Len(lookups) + 1
        /\ (MoveStep("c2") /\ lookups # << >>) =>
             /\ lookups' = lookups
             /\ Len(emitted') = (IF Has("c2") THEN 1 ELSE 0)
        /\ \A i \in 1..MaxPending :
             /\ (DbCount(i) \/ DbCountFail(i)) => (players' = players /\ emitted' = << >>)
             /\ Settle(i) =>
                  /\ players' = players
                  /\ colorIndex' = colorIndex
                  /\ conn' = conn
                  /\ \A j \in 1..Len(emitted') : emitted'[j].type = "player:died"]_vars

\* the rank lookup of the death of "c1" is in flight, "c2" has its reward, and
\* the update of "c2" has just been sent to "c1"
C31_Witness ==
  /\ lookups # << >>
  /\ lookups[1].target = "c1"
  /\ Has("c1")
  /\ players["c1"].hp = 0
  /\ Has("c2")
  /\ players["c2"].score = KillReward
  /\ Len(emitted) = 1
  /\ IsUpdated(emitted[1], "c2")
  /\ emitted[1].to = {"c1"}

\* a player:died for c with death score S is among the frames just sent
DiedSent(c, S) ==
  \E i \in 1..Len(emitted) :
     /\ emitted[i].type = "player:died"
     /\ emitted[i].to = {c}
     /\ emitted[i].payload.score = S

\* the scores "c1" can die with in SpecDeath
DeathScores == {0}

\* the i-th rank lookup in flight is the one of a death of c with score S
PendingDeath(i, c, S) ==
  i <= Len(lookups) /\ lookups[i].target = c /\ lookups[i].score = S

\* C32: when every rank lookup completes, by success or by failure, each death
\* whose lookup is in flight leads to a player:died with its score sent to the
\* victim, unless the victim's connection is no longer open; and it is sent
\* once: the lethal hit sends it itself (no database) or starts one lookup, the
\* settling of a lookup sends one frame and ends that lookup, and no other step
\* sends a player:died.
C32_DiedEventuallyOnce ==
  /\ \A i \in 1..MaxPending, S \in DeathScores :
        PendingDeath(i, "c1", S) ~> (DiedSent("c1", S) \/ conn["c1"] # "open")
  /\ [][/\ LethalHit =>
             IF pool
               THEN /\ CountType(emitted', "player:died") = 0
                    /\ Len(lookups') = Len(lookups) + 1
                    /\ SubSeq(lookups', 1, Len(lookups)) = lookups
                    /\ lookups'[Len(lookups')].target = "c1"
                    /\ lookups'[Len(lookups')].score = players["c1"].score
               ELSE /\ OnlyToVictim(emitted', "c1", players["c1"].score)
                    /\ lookups' = lookups
        /\ \A i \in 1..MaxPending :
             Settle(i) => /\ OnlyToVictim(emitted', lookups[i].target, lookups[i].score)
                          /\ lookups' = Remove(lookups, i)
        /\ CountType(emitted', "player:died") > 0 =>
             (LethalHit \/ \E i \in 1..MaxPending : Settle(i))]_vars

\* the database has ranked the death of "c1", and the frame, with the rank in
\* it, has reached "c1" after the lethal hit
C32_Witness ==
  /\ pool
  /\ conn["c1"] = "open"
  /\ lookups = << >>
  /\ Len(emitted) = 1
  /\ emitted[1].type = "player:died"
  /\ emitted[1].to = {"c1"}
  /\ ~emitted[1].payload.overallRank.isNull

\* the connections that are open
Everyone == {k \in Conns : conn[k] = "open"}

\* the connections that are open, but for c
Others(c) == Everyone \ {c}

\* C33: each frame that a handler broadcasts (player:updated of eat, hit,
\* respawn and update, player:attack, player:joined, player:left) goes to
\* exactly the connections that are open when it is made, less the sender
\* where the handler excludes it (update, attack, join, close); connections
\* not yet accepted, closing or closed are skipped and the others still get
\* the frame.
C33_BroadcastReachesOpen ==
  [][\A i \in 1..Len(emitted') :
       LET f == emitted'[i]
       IN \A c \in Conns :
            /\ (IsUpdated(f, c) /\ Has(c) /\ Eat(c)) => f.to = Everyone
            /\ (f.type = "player:updated" /\ Has("c1") /\ Hit(c, TargetStr("c1")))
                  => f.to = Everyone
            /\ (IsUpdated(f, c) /\ RespawnStep(c)) => f.to = Everyone
            /\ (IsUpdated(f, c) /\ Has(c) /\ UpdateStepWith(c, "")) => f.to = Others(c)
            /\ (f.type = "player:attack" /\ Attack(c, "east")) => f.to = Others(c)
            /\ (f.type = "player:joined" /\ JoinStep(c)) => f.to = Others(c)
            /\ (f.type = "player:left" /\ Close(c)) => f.to = Others(c)]_vars

\* "c2" has a player and is closing: the meal of "c1" was announced to "c1" and
\* to "c3", which listens
C33_Witness ==
  /\ conn["c1"] = "open"
  /\ conn["c2"] = "closing"
  /\ conn["c3"] = "open"
  /\ Has("c1")
  /\ Has("c2")
  /\ players["c1"].score = FoodReward
  /\ Len(emitted) = 1
  /\ IsUpdated(emitted[1], "c1")
  /\ emitted[1].payload.score = FoodReward
  /\ emitted[1].to = {"c1", "c3"}

\* C34 (as claimed): after a lethal hit the victim's score is 0, whoever sent
\* the hit, the victim itself included.
C34_LethalHitZeroesVictim ==
  [][\A c \in Clients, ptarget \in TargetInputs :
       (Hit(c, ptarget) /\ StoredTarget(ptarget) /\ players[ptarget.s].hp = 1) =>
          players'[ptarget.s].score = 0]_vars

\* C35 (as claimed): a stored player whose health is 0 has score 0 and stage
\* tadpole.
C35_DeadHasNothing ==
  \A c \in DOMAIN players :
     players[c].hp = 0 => (players[c].score = 0 /\ players[c].stage = "tadpole")

\* C36 (as claimed): a player:died reaches only a player that is stored and
\* still at health 0.
C36_DiedOnlyWhileDead ==
  \A i \in DiedFrames :
     \A c \in emitted[i].to : Has(c) /\ players[c].hp = 0

\* the rank getOverallRank would report for score S from the table
OverallRankFrom(table, S) == CountHigher(table, S) + 1

\* C37: the write of a death (nickname, S) never changes how many records are
\* strictly greater than S: for every write in flight the count for its own
\* score is the same before and after it, so the overall rank of that death
\* does not depend on which of its two queries the store runs first.
C37_OwnWriteKeepsRank ==
  /\ [](\A i \in 1..Len(writes) :
          OverallRankFrom(Upsert(scores, writes[i].nickname, writes[i].score),
                          writes[i].score)
            = OverallRankFrom(scores, writes[i].score))
  /\ [][\A i \in 1..MaxPending :
          DbWrite(i) =>
             OverallRankFrom(scores', writes[i].score)
               = OverallRankFrom(scores, writes[i].score)]_vars

\* "ann" has a record of 10 and has died again with 10: the write and the
\* count of that death are both in flight
C37_Witness ==
  /\ "ann" \in DOMAIN scores
  /\ scores["ann"] = FoodReward
  /\ Len(writes) = 1
  /\ writes[1] = [nickname |-> "ann", score |-> FoodReward]
  /\ Len(lookups) = 1
  /\ lookups[1].score = FoodReward
  /\ lookups[1].overallRank = Unsettled

\* C38 (as claimed): the health of a stored player goes up only when it is 0
\* and the player's connection sends player:respawn.
C38_HealthRisesOnlyFromDeath ==
  [][\A c \in Clients :
       (Has(c) /\ c \in DOMAIN players' /\ players'[c].hp > players[c].hp) =>
          (players[c].hp = 0 /\ RespawnStep(c))]_vars

\* C39 (as claimed): every player:updated and player:attack just sent carries
\* the id of a stored player.
C39_EventsNameStoredPlayers ==
  \A i \in 1..Len(emitted) :
     emitted[i].type \in {"player:updated", "player:attack"} => Has(emitted[i].payload.id)

=============================================================================
